---- MODULE Spec2Model ----
(***************************************************************************)
(* Lifecycle of the dice service: run() in main.go and setupOTelSDK() in   *)
(* otel.go.  The main goroutine walks through provider construction, the   *)
(* select between the listener's result and the interrupt context, the     *)
(* listener's graceful shutdown and the deferred telemetry drain.  The     *)
(* listener goroutine, the request handlers and the operating system's     *)
(* interrupt delivery run beside it.                                       *)
(***************************************************************************)
EXTENDS Naturals, Sequences, FiniteSets

\* ---------------------------------------------------------------- bounds
MaxInterrupts == 2
MaxRequests == 2
MaxDrainCalls == 2

\* ------------------------------------------------------ program constants
ProvidersPromFirst == <<"trace", "prom", "meter", "logger">>

\* Construction order of the providers in setupOTelSDK.
Providers == <<"trace", "meter", "prom", "logger">>

\* The global slot each provider is published to.
SlotOf(p) ==
    CASE p = "trace" -> "tracer"
      [] p = "meter" -> "meter"
      [] p = "prom" -> "meter"
      [] p = "logger" -> "logger"

Slots == {"propagator", "tracer", "meter", "logger"}

\* make(chan error): no buffer.
SrvErrCapUnbuffered == 1 - 1

\* Capacity of the srvErr channel.
SrvErrCap == 1

\* The contexts a shutdown operation can be handed: the interrupt context of
\* run (ctx) and context.Background().
Ctxs == {"sig", "bg"}

\* ----------------------------------------------------------------- errors
\* An error value is the sequence of the leaf errors it wraps; nil is <<>>.
Nil == <<>>
FactoryErr(p) == [kind |-> "factory", who |-> p]
ShutdownErr(p) == [kind |-> "shutdown", who |-> p]
ListenErr == [kind |-> "listen", who |-> "srv"]
ErrServerClosed == [kind |-> "closed", who |-> "srv"]
SrvShutdownErr == [kind |-> "srvShutdown", who |-> "srv"]

\* errors.Join: nil operands are dropped, the result is nil when all are nil,
\* and otherwise wraps every non-nil operand in order.
Join(a, b) == a \o b

Range(s) == {s[i] : i \in 1..Len(s)}
Contains(e, leaf) == leaf \in Range(e)

VARIABLES
    pc,            \* position of the main goroutine
    shutdownFuncs, \* the registry: providers whose Shutdown is registered
    factoryResult, \* outcome of each provider factory
    setupErr,      \* setupOTelSDK's named result err
    err,           \* run's named result err
    drainRet,      \* who called the running shutdown closure
    drainIdx,      \* loop position of the running shutdown closure
    drainErr,      \* the shutdown closure's local err
    drainCtx,      \* the context the shutdown closure was called with
    drainLog,      \* one record per invocation of the shutdown closure
    calls,         \* every provider Shutdown invocation, in order
    slot,          \* the global provider slots
    slotWrites,    \* number of writes to each global slot
    ctxDone,       \* ctx.Done() is closed
    ctxCause,      \* what cancelled ctx
    armed,         \* signal.Notify registration of NotifyContext is in place
    interrupts,    \* interrupts delivered so far
    srvErr,        \* the srvErr channel's buffer
    lis,           \* state of the goroutine running srv.ListenAndServe
    lisResult,     \* what ListenAndServe returned
    srvShut,       \* srv.Shutdown: not called, called, returned
    inflight,      \* request handlers running that will complete
    hung           \* request handlers running that never complete

vars == <<pc, shutdownFuncs, factoryResult, setupErr, err, drainRet, drainIdx,
          drainErr, drainCtx, drainLog, calls, slot, slotWrites, ctxDone,
          ctxCause, armed, interrupts, srvErr, lis, lisResult, srvShut,
          inflight, hung>>

setupVars == <<shutdownFuncs, factoryResult, setupErr, slot, slotWrites>>
drainVars == <<drainRet, drainIdx, drainErr, drainCtx, drainLog, calls>>
sigVars == <<ctxDone, ctxCause, armed, interrupts>>
srvVars == <<srvErr, lis, lisResult, srvShut, inflight, hung>>

ProviderSet == Range(Providers)

\* The process is running: run has not returned and no signal killed it.
Alive == pc \notin {"done", "killed"}

\* State after signal.NotifyContext and on entry of setupOTelSDK.
Init ==
    /\ pc = "propagator"
    /\ shutdownFuncs = <<>>
    /\ factoryResult = [p \in ProviderSet |-> "pending"]
    /\ setupErr = Nil
    /\ err = Nil
    /\ drainRet = "none"
    /\ drainIdx = 0
    /\ drainErr = Nil
    /\ drainCtx = "none"
    /\ drainLog = <<>>
    /\ calls = <<>>
    /\ slot = [s \in Slots |-> "none"]
    /\ slotWrites = [s \in Slots |-> 0]
    /\ ctxDone = FALSE
    /\ ctxCause = "none"
    /\ armed = TRUE
    /\ interrupts = 0
    /\ srvErr = <<>>
    /\ lis = "none"
    /\ lisResult = Nil
    /\ srvShut = "no"
    /\ inflight = 0
    /\ hung = 0

\* ------------------------------------------------------ the shutdown closure
\* A call of the closure `shutdown`: the loop starts with a nil local err.
CallShutdown(ret, c) ==
    /\ pc' = "drain"
    /\ drainRet' = ret
    /\ drainIdx' = 1
    /\ drainErr' = Nil
    /\ drainCtx' = c
    /\ drainLog' = Append(drainLog,
                     [reg |-> shutdownFuncs, ctx |-> c, res |-> Nil, fin |-> FALSE])
    /\ UNCHANGED calls

FnAtLifo(i) == shutdownFuncs[Len(shutdownFuncs) + 1 - i]

\* The i-th function `range shutdownFuncs` yields.
FnAt(i) == shutdownFuncs[i]

DrainStepShortCircuit ==
    /\ pc = "drain"
    /\ drainIdx <= Len(shutdownFuncs)
    /\ \E ok \in BOOLEAN :
        /\ calls' = Append(calls, [p |-> FnAt(drainIdx), ctx |-> drainCtx,
                                   d |-> Len(drainLog), ok |-> ok])
        /\ drainErr' = Join(drainErr,
                            IF ok THEN Nil ELSE <<ShutdownErr(FnAt(drainIdx))>>)
        /\ drainIdx' = IF ok THEN drainIdx + 1 ELSE Len(shutdownFuncs) + 1
    /\ UNCHANGED <<pc, drainRet, drainCtx, drainLog, err>>
    /\ UNCHANGED <<setupVars, sigVars, srvVars>>

\* One iteration of the loop: err = errors.Join(err, fn(ctx)).
DrainStep ==
    /\ pc = "drain"
    /\ drainIdx <= Len(shutdownFuncs)
    /\ \E ok \in BOOLEAN :
        /\ calls' = Append(calls, [p |-> FnAt(drainIdx), ctx |-> drainCtx,
                                   d |-> Len(drainLog), ok |-> ok])
        /\ drainErr' = Join(drainErr,
                            IF ok THEN Nil ELSE <<ShutdownErr(FnAt(drainIdx))>>)
    /\ drainIdx' = drainIdx + 1
    /\ UNCHANGED <<pc, drainRet, drainCtx, drainLog, err>>
    /\ UNCHANGED <<setupVars, sigVars, srvVars>>

ClearedKeep == shutdownFuncs

\* shutdownFuncs = nil
Cleared == <<>>

\* End of the loop: the registry is cleared and the local err returned.
DrainEnd(ret) ==
    /\ pc = "drain"
    /\ drainRet = ret
    /\ drainIdx > Len(shutdownFuncs)
    /\ shutdownFuncs' = Cleared
    /\ drainLog' = [drainLog EXCEPT ![Len(drainLog)].res = drainErr,
                                    ![Len(drainLog)].fin = TRUE]
    /\ drainRet' = "none"
    /\ drainIdx' = 0
    /\ drainErr' = Nil
    /\ drainCtx' = "none"
    /\ UNCHANGED calls

\* The closure returns into handleErr: err = errors.Join(inErr, shutdown(ctx)),
\* and setupOTelSDK returns.
DrainReturnHandleErr ==
    /\ DrainEnd("handleErr")
    /\ setupErr' = Join(setupErr, drainErr)
    /\ pc' = "setupReturned"
    /\ UNCHANGED <<factoryResult, slot, slotWrites, err>>
    /\ UNCHANGED <<sigVars, srvVars>>

\* The closure returns into run's deferred function:
\* err = errors.Join(err, otelShutdown(context.Background())).
DrainReturnDefer ==
    /\ DrainEnd("defer")
    /\ err' = Join(err, drainErr)
    /\ pc' = "deferStop"
    /\ UNCHANGED <<factoryResult, setupErr, slot, slotWrites>>
    /\ UNCHANGED <<sigVars, srvVars>>

\* The closure returns to a caller that holds the function setupOTelSDK
\* returned.
DrainReturnCaller ==
    /\ DrainEnd("caller")
    /\ pc' = "setupReturned"
    /\ UNCHANGED <<factoryResult, setupErr, slot, slotWrites, err>>
    /\ UNCHANGED <<sigVars, srvVars>>

\* ----------------------------------------------------------- setupOTelSDK
\* otel.SetTextMapPropagator(newPropagator())
SetPropagator ==
    /\ pc = "propagator"
    /\ slot' = [slot EXCEPT !["propagator"] = "composite"]
    /\ slotWrites' = [slotWrites EXCEPT !["propagator"] = @ + 1]
    /\ pc' = Providers[1]
    /\ UNCHANGED <<shutdownFuncs, factoryResult, setupErr, err>>
    /\ UNCHANGED <<drainVars, sigVars, srvVars>>

HandleErrNoShutdown(inErr) ==
    /\ setupErr' = inErr
    /\ pc' = "setupReturned"
    /\ UNCHANGED drainVars

\* handleErr: err = errors.Join(inErr, shutdown(ctx)); the call of shutdown
\* with setupOTelSDK's ctx starts here.
HandleErr(inErr) ==
    /\ setupErr' = inErr
    /\ CallShutdown("handleErr", "sig")

FactoryOkPromUnpublished(i) ==
    /\ i \in 1..Len(Providers)
    /\ pc = Providers[i]
    /\ factoryResult' = [factoryResult EXCEPT ![Providers[i]] = "ok"]
    /\ shutdownFuncs' = Append(shutdownFuncs, Providers[i])
    /\ IF Providers[i] = "prom"
       THEN UNCHANGED <<slot, slotWrites>>
       ELSE /\ slot' = [slot EXCEPT ![SlotOf(Providers[i])] = Providers[i]]
            /\ slotWrites' = [slotWrites EXCEPT ![SlotOf(Providers[i])] = @ + 1]
    /\ pc' = IF i < Len(Providers) THEN Providers[i + 1] ELSE "setupReturned"
    /\ UNCHANGED <<setupErr, err>>
    /\ UNCHANGED <<drainVars, sigVars, srvVars>>

\* The factory of the i-th provider succeeds: its Shutdown is registered and
\* the provider is published to its global slot.
FactoryOk(i) ==
    /\ i \in 1..Len(Providers)
    /\ pc = Providers[i]
    /\ factoryResult' = [factoryResult EXCEPT ![Providers[i]] = "ok"]
    /\ shutdownFuncs' = Append(shutdownFuncs, Providers[i])
    /\ slot' = [slot EXCEPT ![SlotOf(Providers[i])] = Providers[i]]
    /\ slotWrites' = [slotWrites EXCEPT ![SlotOf(Providers[i])] = @ + 1]
    /\ pc' = IF i < Len(Providers) THEN Providers[i + 1] ELSE "setupReturned"
    /\ UNCHANGED <<setupErr, err>>
    /\ UNCHANGED <<drainVars, sigVars, srvVars>>

FactoryFailContinue(i) ==
    /\ i \in 1..Len(Providers)
    /\ pc = Providers[i]
    /\ factoryResult' = [factoryResult EXCEPT ![Providers[i]] = "fail"]
    /\ setupErr' = Join(setupErr, <<FactoryErr(Providers[i])>>)
    /\ pc' = IF i < Len(Providers) THEN Providers[i + 1] ELSE "setupReturned"
    /\ UNCHANGED <<shutdownFuncs, slot, slotWrites, err>>
    /\ UNCHANGED <<drainVars, sigVars, srvVars>>

\* The factory of the i-th provider fails: handleErr(err); return.
FactoryFail(i) ==
    /\ i \in 1..Len(Providers)
    /\ pc = Providers[i]
    /\ factoryResult' = [factoryResult EXCEPT ![Providers[i]] = "fail"]
    /\ HandleErr(<<FactoryErr(Providers[i])>>)
    /\ UNCHANGED <<shutdownFuncs, slot, slotWrites, err>>
    /\ UNCHANGED <<sigVars, srvVars>>

\* -------------------------------------------------------------------- run
\* stop() of signal.NotifyContext: cancels ctx and removes the registration.
StopNoDisarm ==
    /\ armed' = armed
    /\ ctxDone' = TRUE
    /\ ctxCause' = IF ctxDone THEN ctxCause ELSE "stop"
    /\ UNCHANGED interrupts

Stop ==
    /\ armed' = FALSE
    /\ ctxDone' = TRUE
    /\ ctxCause' = IF ctxDone THEN ctxCause ELSE "stop"
    /\ UNCHANGED interrupts

RunReturnNoDrain ==
    /\ pc' = "deferStop"
    /\ UNCHANGED drainVars

\* A return of run after the deferred drain was registered: the deferred
\* function calls otelShutdown(context.Background()).
RunReturn == CallShutdown("defer", "bg")

\* otelShutdown, err := setupOTelSDK(ctx); on an error run returns at once
\* (only the deferred stop runs), otherwise the drain is deferred.
RunAfterSetup ==
    /\ pc = "setupReturned"
    /\ err' = setupErr
    /\ pc' = IF setupErr # Nil THEN "deferStop" ELSE "startSrv"
    /\ UNCHANGED <<setupVars, drainVars, sigVars, srvVars>>

\* The server is built and the goroutine running ListenAndServe is started.
StartSrv ==
    /\ pc = "startSrv"
    /\ lis' = "starting"
    /\ pc' = "select"
    /\ UNCHANGED <<srvErr, lisResult, srvShut, inflight, hung, err>>
    /\ UNCHANGED <<setupVars, drainVars, sigVars>>

SelectSrvErrStop ==
    /\ pc = "select"
    /\ srvErr # <<>>
    /\ err' = Head(srvErr)
    /\ srvErr' = Tail(srvErr)
    /\ Stop
    /\ RunReturn
    /\ UNCHANGED <<lis, lisResult, srvShut, inflight, hung>>
    /\ UNCHANGED setupVars

\* case err = <-srvErr: return
SelectSrvErr ==
    /\ pc = "select"
    /\ srvErr # <<>>
    /\ err' = Head(srvErr)
    /\ srvErr' = Tail(srvErr)
    /\ RunReturn
    /\ UNCHANGED <<lis, lisResult, srvShut, inflight, hung>>
    /\ UNCHANGED <<setupVars, sigVars>>

SelectCtxDoneNeedsSecond ==
    /\ pc = "select"
    /\ ctxDone
    /\ interrupts >= 2
    /\ Stop
    /\ pc' = "callShutdown"
    /\ UNCHANGED <<err, setupVars, drainVars, srvVars>>

\* case <-ctx.Done(): stop()
SelectCtxDone ==
    /\ pc = "select"
    /\ ctxDone
    /\ Stop
    /\ pc' = "callShutdown"
    /\ UNCHANGED <<err, setupVars, drainVars, srvVars>>

SrvShutdownCallAsync ==
    /\ pc = "callShutdown"
    /\ srvShut' = "called"
    /\ RunReturn
    /\ UNCHANGED <<srvErr, lis, lisResult, inflight, hung, err>>
    /\ UNCHANGED <<setupVars, sigVars>>

\* srv.Shutdown(context.Background()) is entered: the server is marked as
\* shutting down and its listeners are closed.
SrvShutdownCall ==
    /\ pc = "callShutdown"
    /\ srvShut' = "called"
    /\ pc' = "waitShutdown"
    /\ UNCHANGED <<srvErr, lis, lisResult, inflight, hung, err>>
    /\ UNCHANGED <<setupVars, drainVars, sigVars>>

\* The outcomes of srv.Shutdown: nil, or the error of closing the listeners.
ShutdownOutcomes == {Nil, <<SrvShutdownErr>>}

SrvShutdownReturnBounded ==
    /\ pc = "waitShutdown"
    /\ \E r \in ShutdownOutcomes : err' = r
    /\ srvShut' = "returned"
    /\ RunReturn
    /\ UNCHANGED <<srvErr, lis, lisResult, inflight, hung>>
    /\ UNCHANGED <<setupVars, sigVars>>

\* err = srv.Shutdown(context.Background()); return.  With a context that is
\* never done, Shutdown returns only once no connection is active.
SrvShutdownReturn ==
    /\ pc = "waitShutdown"
    /\ inflight = 0
    /\ hung = 0
    /\ \E r \in ShutdownOutcomes : err' = r
    /\ srvShut' = "returned"
    /\ RunReturn
    /\ UNCHANGED <<srvErr, lis, lisResult, inflight, hung>>
    /\ UNCHANGED <<setupVars, sigVars>>

\* defer stop(), the last deferred function to run; run has returned.
DeferStop ==
    /\ pc = "deferStop"
    /\ Stop
    /\ pc' = "done"
    /\ UNCHANGED <<err, setupVars, drainVars, srvVars>>

\* ---------------------------------------------------- the listener goroutine
\* ListenAndServe binds the address and starts accepting.
ListenerBind ==
    /\ Alive
    /\ lis = "starting"
    /\ srvShut = "no"
    /\ lis' = "serving"
    /\ UNCHANGED <<srvErr, lisResult, srvShut, inflight, hung, pc, err>>
    /\ UNCHANGED <<setupVars, drainVars, sigVars>>

\* ListenAndServe fails: the bind fails, or Accept fails while serving.
ListenerFail ==
    /\ Alive
    /\ lis \in {"starting", "serving"}
    /\ srvShut = "no"
    /\ lis' = "returned"
    /\ lisResult' = <<ListenErr>>
    /\ UNCHANGED <<srvErr, srvShut, inflight, hung, pc, err>>
    /\ UNCHANGED <<setupVars, drainVars, sigVars>>

\* Shutdown was called: ListenAndServe returns ErrServerClosed.
ListenerClosed ==
    /\ Alive
    /\ lis \in {"starting", "serving"}
    /\ srvShut # "no"
    /\ lis' = "returned"
    /\ lisResult' = <<ErrServerClosed>>
    /\ UNCHANGED <<srvErr, srvShut, inflight, hung, pc, err>>
    /\ UNCHANGED <<setupVars, drainVars, sigVars>>

ListenerSendAndClear ==
    /\ Alive
    /\ lis = "returned"
    /\ Len(srvErr) < SrvErrCap
    /\ srvErr' = Append(srvErr, lisResult)
    /\ lis' = "exited"
    /\ shutdownFuncs' = <<>>
    /\ UNCHANGED <<lisResult, srvShut, inflight, hung, pc, err>>
    /\ UNCHANGED <<factoryResult, setupErr, slot, slotWrites>>
    /\ UNCHANGED <<drainVars, sigVars>>

\* srvErr <- srv.ListenAndServe(): the send, which needs room in the buffer.
ListenerSend ==
    /\ Alive
    /\ lis = "returned"
    /\ Len(srvErr) < SrvErrCap
    /\ srvErr' = Append(srvErr, lisResult)
    /\ lis' = "exited"
    /\ UNCHANGED <<lisResult, srvShut, inflight, hung, pc, err>>
    /\ UNCHANGED <<setupVars, drainVars, sigVars>>

\* --------------------------------------------------------- request handlers
\* A request is accepted and its handler starts; the handler either
\* completes later or never does.
HandlerStart ==
    /\ Alive
    /\ lis = "serving"
    /\ srvShut = "no"
    /\ inflight + hung < MaxRequests
    /\ \/ inflight' = inflight + 1 /\ UNCHANGED hung
       \/ hung' = hung + 1 /\ UNCHANGED inflight
    /\ UNCHANGED <<srvErr, lis, lisResult, srvShut, pc, err>>
    /\ UNCHANGED <<setupVars, drainVars, sigVars>>

\* A handler returns and its connection becomes idle.
HandlerComplete ==
    /\ Alive
    /\ inflight > 0
    /\ inflight' = inflight - 1
    /\ UNCHANGED <<srvErr, lis, lisResult, srvShut, hung, pc, err>>
    /\ UNCHANGED <<setupVars, drainVars, sigVars>>

\* ----------------------------------------------------------------- signals
\* The first interrupt while NotifyContext is registered cancels ctx.
InterruptCancel ==
    /\ Alive
    /\ interrupts < MaxInterrupts
    /\ armed
    /\ ~ctxDone
    /\ interrupts' = interrupts + 1
    /\ ctxDone' = TRUE
    /\ ctxCause' = "signal"
    /\ UNCHANGED <<armed, pc, err, setupVars, drainVars, srvVars>>

\* A further interrupt while still registered is delivered to the
\* registration's channel and has no effect.
InterruptSwallowed ==
    /\ Alive
    /\ interrupts < MaxInterrupts
    /\ armed
    /\ ctxDone
    /\ interrupts' = interrupts + 1
    /\ UNCHANGED <<ctxDone, ctxCause, armed, pc, err, setupVars, drainVars, srvVars>>

\* An interrupt after stop() gets the default disposition: the process dies.
InterruptKill ==
    /\ Alive
    /\ interrupts < MaxInterrupts
    /\ ~armed
    /\ interrupts' = interrupts + 1
    /\ pc' = "killed"
    /\ UNCHANGED <<ctxDone, ctxCause, armed, err, setupVars, drainVars, srvVars>>

\* ------------------------------------------------------------ specifications
SetupStep ==
    \/ SetPropagator
    \/ \E i \in 1..Len(Providers) : FactoryOk(i)
    \/ \E i \in 1..Len(Providers) : FactoryFail(i)
    \/ DrainStep
    \/ DrainReturnHandleErr

MainStep ==
    \/ SetupStep
    \/ RunAfterSetup
    \/ StartSrv
    \/ SelectSrvErr
    \/ SelectCtxDone
    \/ SrvShutdownCall
    \/ SrvShutdownReturn
    \/ DrainReturnDefer
    \/ DeferStop

ListenerStep ==
    \/ ListenerBind
    \/ ListenerFail
    \/ ListenerClosed
    \/ ListenerSend

Interrupt ==
    \/ InterruptCancel
    \/ InterruptSwallowed
    \/ InterruptKill

Next ==
    \/ MainStep
    \/ ListenerStep
    \/ HandlerStart
    \/ HandlerComplete
    \/ Interrupt

\* The service process.
Spec == Init /\ [][Next]_vars

\* The Go scheduler runs every runnable goroutine: the main goroutine, the
\* listener goroutine once ListenAndServe has returned, and a handler that
\* is going to complete.  Nothing forces an interrupt, a request or a
\* listener failure to happen.
FairSpec ==
    /\ Spec
    /\ WF_vars(MainStep)
    /\ WF_vars(ListenerClosed)
    /\ WF_vars(ListenerSend)
    /\ WF_vars(HandlerComplete)

\* A caller of setupOTelSDK that keeps the returned function and calls it
\* any number of times, with either context.
CallerDrain ==
    /\ pc = "setupReturned"
    /\ Len(drainLog) < MaxDrainCalls + 1
    /\ \E c \in Ctxs : CallShutdown("caller", c)
    /\ UNCHANGED <<err, setupVars, sigVars, srvVars>>

NextRegistry ==
    \/ SetupStep
    \/ CallerDrain
    \/ DrainReturnCaller

\* setupOTelSDK and the function it returns, under an arbitrary caller.
SpecRegistry == Init /\ [][NextRegistry]_vars

\* ------------------------------------------------------- observation helpers
Index(p) == CHOOSE i \in 1..Len(Providers) : Providers[i] = p
NumCalls(p) == Cardinality({i \in 1..Len(calls) : calls[i].p = p})
CallsOf(d) == SelectSeq(calls, LAMBDA c : c.d = d)
FailedOf(d) == SelectSeq(calls, LAMBDA c : c.d = d /\ ~c.ok)
ProvidersOf(cs) == [i \in 1..Len(cs) |-> cs[i].p]
ErrorsOf(cs) == [i \in 1..Len(cs) |-> ShutdownErr(cs[i].p)]
Finished(d) == d \in 1..Len(drainLog) /\ drainLog[d].fin
AllBuilt == \A p \in ProviderSet : factoryResult[p] = "ok"
\* The providers whose factory succeeded, in construction order.
Built == SelectSeq(Providers, LAMBDA p : factoryResult[p] = "ok")
\* setupOTelSDK has returned to its caller.
SetupHasReturned ==
    /\ pc \notin ({"propagator"} \cup ProviderSet)
    /\ ~(pc = "drain" /\ drainRet = "handleErr")
\* The select observed ctx.Done().
InterruptPath == pc \in {"callShutdown", "waitShutdown"} \/ srvShut # "no"

\* ------------------------------------------------------------------ claims
\* C1: if the factory of provider K fails inside setupOTelSDK, then once
\* setupOTelSDK has returned the shutdown operation of every provider
\* constructed before K has been invoked exactly once (and no other), and
\* the error setupOTelSDK returned includes K's failure.
C1_RollbackOnFactoryFailure ==
    \A K \in ProviderSet :
        (factoryResult[K] = "fail" /\ SetupHasReturned) =>
            /\ \A p \in ProviderSet :
                   NumCalls(p) = IF Index(p) < Index(K) THEN 1 ELSE 0
            /\ Contains(setupErr, FactoryErr(K))

\* The last factory failed after three providers were built, one of the
\* rollback's shutdown operations failed too, and setupOTelSDK has returned.
C1_Witness ==
    /\ pc = "setupReturned"
    /\ factoryResult["logger"] = "fail"
    /\ Len(calls) = 3
    /\ Contains(setupErr, ShutdownErr("meter"))

\* C2: once telemetry setup has succeeded, whenever run has returned every
\* provider's shutdown operation has been invoked exactly once.
C2_DrainOnEveryExit ==
    (pc = "done" /\ AllBuilt) => \A p \in ProviderSet : NumCalls(p) = 1

\* run returned on the listener-error path after a successful setup.
C2_Witness ==
    /\ pc = "done"
    /\ AllBuilt
    /\ srvShut = "no"
    /\ Contains(err, ListenErr)

\* C3: of the invocations of the function setupOTelSDK returns, the first
\* runs every registered operation, in order, and returns their joined
\* errors; every later one starts from an empty registry, invokes nothing
\* and returns nil; the registry is empty after any drain.
C3_SecondDrainIsNoOp ==
    /\ \A d \in 1..Len(drainLog) :
        Finished(d) =>
            IF d = 1
            THEN /\ drainLog[d].reg = Built
                 /\ ProvidersOf(CallsOf(d)) = drainLog[d].reg
                 /\ drainLog[d].res = ErrorsOf(FailedOf(d))
            ELSE /\ drainLog[d].reg = <<>>
                 /\ CallsOf(d) = <<>>
                 /\ drainLog[d].res = Nil
    /\ (pc # "drain" /\ drainLog # <<>>) => shutdownFuncs = <<>>

\* Two drains in sequence after a full setup, the first one returning an
\* error.
C3_Witness ==
    /\ Finished(2)
    /\ Len(drainLog[1].reg) = Len(Providers)
    /\ drainLog[1].res # Nil

\* C4: a finished drain has invoked every operation that was registered
\* when it started, whichever of them failed; its result contains the error
\* of each failing operation and is nil only if every operation succeeded.
C4_NoShortCircuit ==
    \A d \in 1..Len(drainLog) :
        Finished(d) =>
            /\ Range(ProvidersOf(CallsOf(d))) = Range(drainLog[d].reg)
            /\ \A i \in 1..Len(calls) :
                   (calls[i].d = d /\ ~calls[i].ok) =>
                       Contains(drainLog[d].res, ShutdownErr(calls[i].p))
            /\ (drainLog[d].res = Nil) <=> (FailedOf(d) = <<>>)

\* A finished drain of four operations in which the first and the third
\* failed and the others succeeded.
C4_Witness ==
    /\ Finished(1)
    /\ Len(drainLog[1].reg) = Len(Providers)
    /\ ProvidersOf(FailedOf(1)) = <<"trace", "prom">>

\* C5: a drain invokes the registered operations in FIFO order, which is the
\* creation order of the providers that were built, and hands each the
\* context the drain itself was called with.
C5_FifoSameContext ==
    \A d \in 1..Len(drainLog) :
        LET cs == CallsOf(d)
            reg == drainLog[d].reg
        IN  /\ Len(cs) <= Len(reg)
            /\ reg = SubSeq(Providers, 1, Len(reg))
            /\ \A i \in 1..Len(cs) :
                   /\ cs[i].p = reg[i]
                   /\ cs[i].p = Providers[i]
                   /\ cs[i].ctx = drainLog[d].ctx

\* The rollback drain of a failed setup has invoked three operations, each
\* with setupOTelSDK's context.
C5_Witness ==
    /\ Finished(1)
    /\ drainLog[1].ctx = "sig"
    /\ Len(CallsOf(1)) = 3

\* C6: on the interrupt path, srv.Shutdown has returned only when no request
\* handler is in flight, and no drain has begun before srv.Shutdown returned.
C6_DrainAfterListenerShutdown ==
    /\ srvShut = "returned" => (inflight = 0 /\ hung = 0)
    /\ (InterruptPath /\ drainLog # <<>>) => srvShut = "returned"

\* The interrupt was observed and srv.Shutdown is waiting for a handler in
\* flight; no drain has begun.
C6_Witness ==
    /\ pc = "waitShutdown"
    /\ inflight > 0
    /\ drainLog = <<>>

C8_DisarmedSingleDrain ==
    /\ InterruptPath => ~armed
    /\ pc = "callShutdown" => ENABLED SrvShutdownCall
    /\ Len(drainLog) <= 1

\* run has returned through listener shutdown and drain after exactly one
\* interrupt.
C8_Witness ==
    /\ pc = "done"
    /\ srvShut = "returned"
    /\ interrupts = 1
    /\ Finished(1)

\* C9 as stated: when run has returned after a successful setup, a failure
\* ListenAndServe returned and every shutdown operation's error are in the
\* error run returned.
C9_NoErrorDropped ==
    pc = "done" =>
        /\ Contains(lisResult, ListenErr) => Contains(err, ListenErr)
        /\ \A i \in 1..Len(calls) :
               ~calls[i].ok => Contains(err, ShutdownErr(calls[i].p))

\* C10 as stated: run returns a non-nil error whenever a factory, the
\* listener, srv.Shutdown or a shutdown operation reported a failure, and
\* nil on an interrupt-driven shutdown in which all of them succeeded.
C10_ExitStatus ==
    pc = "done" =>
        /\ ( \/ \E p \in ProviderSet : factoryResult[p] = "fail"
             \/ Contains(lisResult, ListenErr)
             \/ Contains(err, SrvShutdownErr)
             \/ \E i \in 1..Len(calls) : ~calls[i].ok ) => err # Nil
        /\ ( /\ srvShut = "returned"
             /\ ~Contains(err, SrvShutdownErr)
             /\ \A i \in 1..Len(calls) : calls[i].ok ) => err = Nil

\* The select received the listener's error: err holds it from then on.
ListenerErrorPath == Contains(err, ListenErr)

\* C11 as stated: when the select received the listener's failure, the
\* runner never calls srv.Shutdown and never cancels ctx up to and including
\* run's return, and the drain has run exactly once when run has returned.
C11_NeverCancelled ==
    ListenerErrorPath =>
        /\ srvShut = "no"
        /\ ctxCause # "stop"
        /\ pc = "done" => (Len(drainLog) = 1 /\ Finished(1))

\* C11 amended: when the select received the listener's failure, the runner
\* never calls srv.Shutdown, the drain is invoked exactly once and has
\* shut every provider down once before the deferred stop(), and the runner
\* does not cancel ctx before that deferred stop(), which cancels it as the
\* last step of run.
C11_CancelledOnlyByDeferredStop ==
    ListenerErrorPath =>
        /\ srvShut = "no"
        /\ Len(drainLog) = 1
        /\ pc \in {"deferStop", "done"} =>
               (Finished(1) /\ \A p \in ProviderSet : NumCalls(p) = 1)
        /\ pc # "done" => ctxCause # "stop"
        /\ pc = "done" => (ctxDone /\ ~armed)

\* run has returned on the listener-error path without any interrupt; the
\* deferred stop() cancelled ctx.
C11_Witness ==
    /\ pc = "done"
    /\ ListenerErrorPath
    /\ interrupts = 0
    /\ ctxCause = "stop"

\* The global provider slots (the propagator's slot is not one of them).
ProviderSlots == {"tracer", "meter", "logger"}

\* C12 as stated: each global provider slot is written at most once, and
\* exactly once by the time the listener goroutine is started.
C12_WrittenOnce ==
    \A s \in ProviderSlots :
        /\ slotWrites[s] <= 1
        /\ lis # "none" => slotWrites[s] = 1

\* C12 amended: the tracer and logger slots are written exactly once and the
\* meter slot exactly twice (push-based provider, then pull-based provider),
\* all before the listener goroutine is started; from then on, and so while
\* any request is handled, no slot is written again.
C12_WrittenDuringStartupOnly ==
    /\ slotWrites["tracer"] <= 1
    /\ slotWrites["meter"] <= 2
    /\ slotWrites["logger"] <= 1
    /\ lis # "none" =>
           /\ slotWrites["tracer"] = 1
           /\ slotWrites["meter"] = 2
           /\ slotWrites["logger"] = 1
           /\ slot["tracer"] = "trace"
           /\ slot["logger"] = "logger"
    /\ inflight + hung > 0 => lis # "none"

\* A request is being handled; the meter slot has been written twice.
C12_Witness ==
    /\ lis = "serving"
    /\ inflight > 0
    /\ slotWrites["meter"] = 2

\* C13: after a successful startup the global meter slot holds the
\* pull-based provider, installed last, and not the push-based one; the
\* shutdown operations of both metric providers are in the registry until
\* the drain, which invokes each of them once.
C13_LastInstalledWins ==
    (SetupHasReturned /\ AllBuilt) =>
        /\ slot["meter"] = "prom"
        /\ drainLog = <<>> => {"meter", "prom"} \subseteq Range(shutdownFuncs)
        /\ Finished(1) => (NumCalls("meter") = 1 /\ NumCalls("prom") = 1)

\* setupOTelSDK has just returned successfully, both metric providers built.
C13_Witness ==
    /\ pc = "setupReturned"
    /\ AllBuilt
    /\ slotWrites["meter"] = 2
    /\ Len(shutdownFuncs) = Len(Providers)

\* C14: the propagator is installed before any factory is invoked; the
\* factories are invoked in construction order, each only after every
\* earlier provider was built, registered and published; after a factory
\* has failed no later factory is invoked and the listener is never started.
C14_StrictlySequential ==
    /\ pc = "propagator" => \A p \in ProviderSet : factoryResult[p] = "pending"
    /\ \A i \in 1..Len(Providers) :
        LET p == Providers[i] IN
        /\ factoryResult[p] # "pending" =>
               /\ slot["propagator"] = "composite"
               /\ \A j \in 1..(i - 1) : factoryResult[Providers[j]] = "ok"
        /\ pc = p =>
               /\ factoryResult[p] = "pending"
               /\ \A j \in 1..(i - 1) : factoryResult[Providers[j]] = "ok"
               /\ shutdownFuncs = SubSeq(Providers, 1, i - 1)
               /\ \A j \in 1..(i - 1) : slotWrites[SlotOf(Providers[j])] >= 1
               /\ i > 1 => slot[SlotOf(Providers[i - 1])] = Providers[i - 1]
        /\ factoryResult[p] = "fail" =>
               /\ \A j \in (i + 1)..Len(Providers) :
                      factoryResult[Providers[j]] = "pending"
               /\ lis = "none"

\* run has returned after the second factory failed: the later factories
\* were never invoked.
C14_Witness ==
    /\ pc = "done"
    /\ factoryResult["trace"] = "ok"
    /\ factoryResult["meter"] = "fail"
    /\ factoryResult["prom"] = "pending"

\* C15: the registry changes only in a step of the main goroutine that is
\* either an append by a factory's success, made before any drain was
\* invoked and before the listener goroutine exists, or the clearing at the
\* end of a drain; a drain is in progress only in the main goroutine, so no
\* append falls into it; and no step of the listener goroutine, of a
\* handler or of the signal delivery changes the registry or invokes a
\* shutdown operation.
C15_RegistrySequentialAccess ==
    [][ /\ shutdownFuncs' # shutdownFuncs =>
            \/ /\ pc \in ProviderSet
               /\ pc' # pc
               /\ drainLog = <<>>
               /\ lis = "none"
               /\ shutdownFuncs' = Append(shutdownFuncs, pc)
            \/ /\ pc = "drain"
               /\ pc' \in {"setupReturned", "deferStop"}
               /\ shutdownFuncs' = <<>>
        /\ calls' # calls => (pc = "drain" /\ pc' = "drain")
        /\ (lis' # lis \/ inflight' # inflight \/ hung' # hung
                \/ interrupts' # interrupts) =>
            UNCHANGED <<shutdownFuncs, calls, drainLog>>
      ]_vars

\* The drain is in the middle of its loop while the listener goroutine has
\* not yet sent its result: the two goroutines run side by side.
C15_Witness ==
    /\ pc = "drain"
    /\ drainIdx = 3
    /\ lis = "returned"

\* C16: whenever the listener goroutine is at its send, srvErr has room, so
\* the send is enabled and, the goroutine being scheduled, completes unless
\* the process ends first; the channel receives at most one value, and none
\* before that send.
C16_SendNeverBlocks ==
    /\ [](/\ lis = "returned" => Len(srvErr) < SrvErrCap
          /\ (lis = "returned" /\ Alive) => ENABLED ListenerSend
          /\ lis # "exited" => srvErr = <<>>
          /\ Len(srvErr) <= 1)
    /\ (lis = "returned") ~> (lis = "exited" \/ ~Alive)

\* run has returned through the interrupt path: the goroutine has sent
\* ErrServerClosed and exited, and nobody received the value.
C16_Witness ==
    /\ pc = "done"
    /\ srvShut = "returned"
    /\ lis = "exited"
    /\ srvErr = <<<<ErrServerClosed>>>>

\* C17 as stated: while a drain is running no request handler is in flight.
C17_NoHandlerDuringDrain ==
    pc = "drain" => inflight + hung = 0

\* C17 amended: while a drain is running no request handler is in flight,
\* except on the listener-error path: there srv.Shutdown is never called and
\* the drain runs without waiting for the handlers that were in flight when
\* the listener failed.
C17_NoHandlerDuringDrainUnlessListenerFailed ==
    pc = "drain" =>
        /\ drainRet = "handleErr" => (lis = "none" /\ inflight + hung = 0)
        /\ (drainRet = "defer" /\ ~ListenerErrorPath) =>
               (srvShut = "returned" /\ inflight + hung = 0)
        /\ inflight + hung > 0 => (ListenerErrorPath /\ srvShut = "no")

\* The drain has invoked a shutdown operation on the listener-error path
\* while a handler is still in flight.
C17_Witness ==
    /\ pc = "drain"
    /\ ListenerErrorPath
    /\ inflight > 0
    /\ Len(calls) >= 1

\* C18 as stated: with an interrupt delivered before or while the select
\* waits, run proceeds to listener shutdown: the step the main goroutine
\* takes at the select is the ctx.Done() branch.
C18_ProceedsToListenerShutdown ==
    [][(pc = "select" /\ ctxCause = "signal") =>
           pc' \in {"select", "callShutdown"}]_vars

\* C18 amended: an interrupt delivered while the registration is in place,
\* also during provider construction, is never lost: ctx stays cancelled,
\* and once all providers are built run goes on, with no further interrupt,
\* to the drain and returns, through srv.Shutdown when the select takes the
\* ctx.Done() branch or directly when the listener has failed and the
\* select takes its error; unless srv.Shutdown waits for a handler that
\* never completes or a later interrupt kills the process.
C18_InterruptNotLost ==
    /\ [][ctxDone => ctxDone']_vars
    /\ [](( pc = "done" /\ AllBuilt /\ ctxCause = "signal") =>
              (Finished(1) /\ (srvShut = "returned" \/ ListenerErrorPath)))
    /\ (ctxCause = "signal" /\ AllBuilt) ~>
           (pc \in {"done", "killed"} \/ (pc = "waitShutdown" /\ hung > 0))

\* The interrupt was delivered during provider construction, before the
\* select is reached.
C18_Witness ==
    /\ pc = "prom"
    /\ ctxCause = "signal"
    /\ interrupts = 1

====
